---- MODULE Spec2Model ----
(***************************************************************************)
(* GreyWolfOptimization.fit (src/zoofs/greywolfoptimization.py): the       *)
(* iteration loop, the timeout check, the convergence coefficient a, the   *)
(* top-three ranking, the alpha/beta/delta hierarchy update and the two    *)
(* position updates (method 1 and method 2).                               *)
(*                                                                         *)
(* Numbers.  Fitness scores are real numbers; only their order is read by  *)
(* fit, so they are drawn from 1..MaxScore, and np.inf is a value above    *)
(* all of them.  The coefficient a is kept as an exact fraction num/den.   *)
(* Random draws are inputs of the actions: a comparison of a sigmoid value *)
(* (strictly between 0 and 1) with a uniform draw can come out either way  *)
(* for every cell, so it is drawn from BOOLEAN; the draw r is kept in      *)
(* twelfths so that the thresholds 1/3 and 2/3 are exact.                  *)
(*                                                                         *)
(* Arrays.  A wolf dimension is a numpy array object: either an array of   *)
(* its own (np.ones, or a row of the copy an integer-array index makes)    *)
(* or a view of a row of self.individuals.  Deref reads it through.        *)
(* n_features is the length np.ones(X_train.shape[...]) gives a dimension. *)
(*                                                                         *)
(* The base class is not part of the source: _evaluate_fitness is any      *)
(* sequence of scores, one per individual, and keeps the best score and    *)
(* mask of the run; sigmoid is strictly between 0 and 1.                   *)
(***************************************************************************)
EXTENDS Integers, Sequences, FiniteSets, TLC

\* ---------------------------------------------------------------- bounds
MaxIter == 2      \* n_iteration of the runs that follow the hierarchy
MaxPop == 2       \* largest population_size of those runs
MaxFeat == 2      \* largest number of features of those runs
RankPop == 4      \* largest population_size of the one-iteration runs
MaxSchedule == 4  \* largest n_iteration of the runs that follow the schedule
MaxTimeout == 0   \* largest timeout, in clock ticks
MaxClock == 1     \* time.time() reads 0..MaxClock after the first reading
UpdFeat == 2      \* largest number of features of the method-1 runs
MaxScore == 3     \* fitness scores are drawn from 1..MaxScore

\* ---------------------------------------------------------------- values
None == 0 - 1                 \* timeout=None
Inf == MaxScore + 1           \* np.inf: above every score
ScoreValues == 1 .. MaxScore
TopK == 3                     \* [:3]
RDen == 12                    \* r is drawn as RNum/RDen
RValues == {0, 4, 6, 8}

VARIABLES
  n_iteration, timeout, population_size, n_features, method, minimize,
  pc, i, a, clock, timeout_upper_limit, warned,
  individuals, fitness_scores, zipped, k,
  alpha_wolf_fitness, alpha_wolf_dimension,
  beta_wolf_fitness, beta_wolf_dimension,
  delta_wolf_fitness, delta_wolf_dimension,
  best_score, best_dim, best_feature_list, outcome,
  Y1, Y2, Y3, r

config == <<n_iteration, timeout, population_size, n_features, method, minimize>>
wolves == <<alpha_wolf_fitness, alpha_wolf_dimension, beta_wolf_fitness,
            beta_wolf_dimension, delta_wolf_fitness, delta_wolf_dimension>>
best == <<best_score, best_dim>>
locals == <<Y1, Y2, Y3, r>>
vars == <<config, pc, i, a, clock, timeout_upper_limit, warned, individuals,
          fitness_scores, zipped, k, wolves, best, best_feature_list, outcome,
          locals>>

\* ---------------------------------------------------------------- arrays
Bits(n) == [1 .. n -> {0, 1}]
Matrix(p, n) == [1 .. p -> Bits(n)]
Ones(n) == [f \in 1 .. n |-> 1]

Own(bits) == [base |-> "own", bits |-> bits, row |-> 0]
View(row) == [base |-> "individuals", bits |-> <<>>, row |-> row]

\* The bits an array object holds, given the current buffer of self.individuals.
DerefIn(pop, d) == IF d.base = "own" THEN d.bits ELSE pop[d.row]
Deref(d) == DerefIn(individuals, d)

\* Variant: the rows as views of arr, what a slice arr[a:b] would give.
FancyIndexView(arr, idx) == [j \in 1 .. Len(idx) |-> View(idx[j])]
\* arr[idx] with idx an integer array (advanced indexing): a new array, a copy.
FancyIndex(arr, idx) == [j \in 1 .. Len(idx) |-> Own(arr[idx[j]])]

\* ------------------------------------------------------------ comparisons
\* Variants of <: ties included, and the direction flipped.
LessOrEqual(x, y) == x <= y
LessFlipped(x, y) == x > y
\* fit < slot and fit > slot on floats; np.inf is above every score.
Less(x, y) == x < y
Greater(x, y) == x > y

\* -------------------------------------------------------------- schedule
\* A fraction num/den, den > 0.
Frac(num, den) == [num |-> num, den |-> den]
FracLeq(x, y) == x.num * y.den <= y.num * x.den

\* Variant: i in place of i + 1.
ScheduleOffByOne(it, n) == Frac(2 * n - 2 * it, n)
\* a = 2 - 2 * ((i + 1) / n_iteration)
Schedule(it, n) == Frac(2 * n - 2 * (it + 1), n)

\* --------------------------------------------------------------- ranking
\* np.argsort(scores): an index order that sorts scores ascending.  The default
\* sort kind is not stable, so any order of equal scores may come out.
RECURSIVE AscendingOrders(_, _)
AscendingOrders(S, scores) ==
  IF S = {} THEN {<<>>}
  ELSE UNION {{<<x>> \o rest : rest \in AscendingOrders(S \ {x}, scores)} :
                x \in {y \in S : \A z \in S : scores[y] <= scores[z]}}
\* Variant: descending.
RECURSIVE DescendingOrders(_, _)
DescendingOrders(S, scores) ==
  IF S = {} THEN {<<>>}
  ELSE UNION {{<<x>> \o rest : rest \in DescendingOrders(S \ {x}, scores)} :
                x \in {y \in S : \A z \in S : scores[y] >= scores[z]}}
ArgsortDescending(scores) == DescendingOrders(DOMAIN scores, scores)
Argsort(scores) == AscendingOrders(DOMAIN scores, scores)

Min2(x, y) == IF x < y THEN x ELSE y
\* idx[:3]
FirstThree(idx) == SubSeq(idx, 1, Min2(TopK, Len(idx)))

\* np.argsort(scores)[:3]: what it can return.
TopThree(scores) == {FirstThree(order) : order \in Argsort(scores)}

\* zip(np.array(self.fitness_scores)[idx], self.individuals[idx])
Zip(scores, pop, idx) ==
  LET dims == FancyIndex(pop, idx)
  IN  [j \in 1 .. Len(idx) |-> [fit |-> scores[idx[j]], dim |-> dims[j]]]

\* ------------------------------------------------------------- hierarchy
Wolves(af, ad, bf, bd, df, dd) ==
  [alpha_wolf_fitness |-> af, alpha_wolf_dimension |-> ad,
   beta_wolf_fitness |-> bf, beta_wolf_dimension |-> bd,
   delta_wolf_fitness |-> df, delta_wolf_dimension |-> dd]

\* The three conditions of the hierarchy loop (and two variants: a tie with
\* alpha accepted, the lower bound of the delta test left out).
IsNewAlphaOrTie(w, fit) == LessOrEqual(fit, w.alpha_wolf_fitness)
IsNewAlpha(w, fit) == Less(fit, w.alpha_wolf_fitness)
IsNewBeta(w, fit) ==
  Greater(fit, w.alpha_wolf_fitness) /\ Less(fit, w.beta_wolf_fitness)
IsNewDeltaNoLowerBound(w, fit) == Less(fit, w.delta_wolf_fitness)
IsNewDelta(w, fit) ==
  Greater(fit, w.beta_wolf_fitness) /\ Less(fit, w.delta_wolf_fitness)

\* Variant: each slot is overwritten before it is copied down.
HierarchyUpdatePromoteFirst(w, fit, dim) ==
  IF IsNewAlpha(w, fit)
  THEN LET w1 == [w EXCEPT !.beta_wolf_fitness = w.alpha_wolf_fitness]
           w2 == [w1 EXCEPT !.delta_wolf_fitness = w1.beta_wolf_fitness]
           w3 == [w2 EXCEPT !.alpha_wolf_fitness = fit]
           w4 == [w3 EXCEPT !.beta_wolf_dimension = w3.alpha_wolf_dimension]
           w5 == [w4 EXCEPT !.delta_wolf_dimension = w4.beta_wolf_dimension]
       IN  [w5 EXCEPT !.alpha_wolf_dimension = dim]
  ELSE IF IsNewBeta(w, fit)
  THEN LET w1 == [w EXCEPT !.beta_wolf_fitness = fit]
           w2 == [w1 EXCEPT !.delta_wolf_fitness = w1.beta_wolf_fitness]
           w3 == [w2 EXCEPT !.beta_wolf_dimension = dim]
       IN  [w3 EXCEPT !.delta_wolf_dimension = w3.beta_wolf_dimension]
  ELSE IF IsNewDelta(w, fit)
  THEN LET w1 == [w EXCEPT !.delta_wolf_fitness = fit]
       IN  [w1 EXCEPT !.delta_wolf_dimension = dim]
  ELSE w
\* One pass of the loop body for the candidate (fit, dim): the assignments in
\* the order the code makes them.
HierarchyUpdate(w, fit, dim) ==
  IF IsNewAlpha(w, fit)
  THEN LET w1 == [w EXCEPT !.delta_wolf_fitness = w.beta_wolf_fitness]
           w2 == [w1 EXCEPT !.beta_wolf_fitness = w1.alpha_wolf_fitness]
           w3 == [w2 EXCEPT !.alpha_wolf_fitness = fit]
           w4 == [w3 EXCEPT !.delta_wolf_dimension = w3.beta_wolf_dimension]
           w5 == [w4 EXCEPT !.beta_wolf_dimension = w4.alpha_wolf_dimension]
       IN  [w5 EXCEPT !.alpha_wolf_dimension = dim]
  ELSE IF IsNewBeta(w, fit)
  THEN LET w1 == [w EXCEPT !.delta_wolf_fitness = w.beta_wolf_fitness]
           w2 == [w1 EXCEPT !.beta_wolf_fitness = fit]
           w3 == [w2 EXCEPT !.delta_wolf_dimension = w2.beta_wolf_dimension]
       IN  [w3 EXCEPT !.beta_wolf_dimension = dim]
  ELSE IF IsNewDelta(w, fit)
  THEN LET w1 == [w EXCEPT !.delta_wolf_fitness = fit]
       IN  [w1 EXCEPT !.delta_wolf_dimension = dim]
  ELSE w

CurrentWolves ==
  Wolves(alpha_wolf_fitness, alpha_wolf_dimension, beta_wolf_fitness,
         beta_wolf_dimension, delta_wolf_fitness, delta_wolf_dimension)

\* ------------------------------------------------------ best-result record
\* _evaluate_fitness keeps the best score seen in the run and the mask it was
\* scored on (self.best_score, self.best_dim).
RECURSIVE BestAfter(_, _, _, _, _)
BestAfter(scores, pop, j, bs, bd) ==
  IF j > Len(scores) THEN <<bs, bd>>
  ELSE IF scores[j] < bs THEN BestAfter(scores, pop, j + 1, scores[j], pop[j])
  ELSE BestAfter(scores, pop, j + 1, bs, bd)

\* list(self.feature_list[np.where(self.best_dim)[0]])
FeatureList(bits) == {f \in DOMAIN bits : bits[f] # 0}
Unset == [set |-> FALSE, value |-> {}]
Assigned(v) == [set |-> TRUE, value |-> v]

\* return self.best_feature_list
Return == IF best_feature_list.set THEN "returned" ELSE "AttributeError"

\* -------------------------------------------------------- position update
Cells(p, n) == [1 .. p -> [1 .. n -> BOOLEAN]]
RDraws(p, n) == [1 .. p -> [1 .. n -> RValues]]
NoLocal == <<>>

\* np.where(cond, 1, 0)
Where(cond) == IF cond THEN 1 ELSE 0

\* Method 2: np.where(uniform <= sigmoid((X1 + X2 + X3) / 3), 1, 0), a new array.
Method2(p, n, u) == [x \in 1 .. p |-> [f \in 1 .. n |-> Where(u[x][f])]]

\* Method 1: Yk = np.where(leader + np.where(sigmoid(A1 * d) > uniform, 1, 0) >= 1, 1, 0)
Proposal(p, n, leader, gate) ==
  [x \in 1 .. p |-> [f \in 1 .. n |-> Where(leader[f] + Where(gate[x][f]) >= 1)]]

\* r < 1/3, (r >= 1/3) & (r < 2/3), r >= 2/3, with r = rn / RDen
InFirstThird(rn) == 3 * rn < RDen
InSecondThird(rn) == 3 * rn >= RDen /\ 3 * rn < 2 * RDen
InLastThirdStrict(rn) == 3 * rn > 2 * RDen   \* variant: r > 2/3
InLastThird(rn) == 3 * rn >= 2 * RDen

\* self.individuals[mask] = Y[mask], the three assignments in order, in place.
Mixture(p, n, pop, y1, y2, y3, rn) ==
  LET s1 == [x \in 1 .. p |-> [f \in 1 .. n |->
               IF InFirstThird(rn[x][f]) THEN y1[x][f] ELSE pop[x][f]]]
      s2 == [x \in 1 .. p |-> [f \in 1 .. n |->
               IF InSecondThird(rn[x][f]) THEN y2[x][f] ELSE s1[x][f]]]
  IN  [x \in 1 .. p |-> [f \in 1 .. n |->
               IF InLastThird(rn[x][f]) THEN y3[x][f] ELSE s2[x][f]]]

\* ------------------------------------------------------------------ Init
\* The state of fit when it reaches the loop, for the configuration
\* (n_iteration, timeout, population_size, n_features, method, minimize); the
\* population is what initialize_population left, any 0/1 matrix.
InitOf(n, t, p, nf, m, mn) ==
  /\ n_iteration = n
  /\ timeout = t
  /\ population_size = p
  /\ n_features = nf
  /\ method = m
  /\ minimize = mn
  /\ pc = "loop"
  /\ i = 0
  /\ a = Frac(0, 1)
  /\ clock = 0
  /\ timeout_upper_limit = IF timeout # None THEN 0 + timeout ELSE 0
  /\ warned = FALSE
  /\ individuals \in Matrix(population_size, n_features)
  /\ fitness_scores = <<>>
  /\ zipped = <<>>
  /\ k = 0
  /\ alpha_wolf_dimension = Own(Ones(n_features))
  /\ alpha_wolf_fitness = Inf
  /\ beta_wolf_dimension = Own(Ones(n_features))
  /\ beta_wolf_fitness = Inf
  /\ delta_wolf_dimension = Own(Ones(n_features))
  /\ delta_wolf_fitness = Inf
  /\ best_score = Inf
  /\ best_dim = Ones(n_features)
  /\ best_feature_list = Unset
  /\ outcome = "running"
  /\ Y1 = NoLocal /\ Y2 = NoLocal /\ Y3 = NoLocal /\ r = NoLocal

\* ---------------------------------------------------------------- actions
\* for i in range(self.n_iteration): the timeout check, then a.
\* time.time() never runs backwards; with timeout None its reading decides
\* nothing and the clock is left where it was.  Y1, Y2, Y3 and r of the last
\* position update are not read again, and the model drops them here.
LoopHead ==
  /\ pc = "loop"
  /\ \E t \in (IF timeout = None THEN {clock} ELSE clock .. MaxClock) :
       /\ clock' = t
       /\ IF i >= n_iteration
          THEN /\ pc' = "done" /\ outcome' = Return
               /\ UNCHANGED <<warned, a>>
          ELSE IF timeout # None /\ t > timeout_upper_limit
          THEN /\ warned' = TRUE
               /\ pc' = "done" /\ outcome' = Return
               /\ UNCHANGED a
          ELSE /\ a' = Schedule(i, n_iteration)
               /\ pc' = "evaluate"
               /\ UNCHANGED <<warned, outcome>>
  /\ Y1' = NoLocal /\ Y2' = NoLocal /\ Y3' = NoLocal /\ r' = NoLocal
  /\ UNCHANGED <<config, i, timeout_upper_limit, individuals, fitness_scores,
                 zipped, k, wolves, best, best_feature_list>>

\* self.fitness_scores = self._evaluate_fitness(...); the top three indexes and
\* the two arrays the hierarchy loop zips.
Evaluate ==
  /\ pc = "evaluate"
  /\ \E scores \in [1 .. population_size -> ScoreValues] :
       /\ fitness_scores' = scores
       /\ LET b == BestAfter(scores, individuals, 1, best_score, best_dim)
          IN  best_score' = b[1] /\ best_dim' = b[2]
       /\ \E top_three_fitness_indexes \in TopThree(scores) :
            zipped' = Zip(scores, individuals, top_three_fitness_indexes)
  /\ k' = 1
  /\ pc' = "hierarchy"
  /\ UNCHANGED <<config, i, a, clock, timeout_upper_limit, warned, individuals,
                 wolves, best_feature_list, outcome, locals>>

\* One candidate of the hierarchy loop.
HierarchyStep ==
  /\ pc = "hierarchy"
  /\ k <= Len(zipped)
  /\ LET w == HierarchyUpdate(CurrentWolves, zipped[k].fit, zipped[k].dim)
     IN  /\ alpha_wolf_fitness' = w.alpha_wolf_fitness
         /\ alpha_wolf_dimension' = w.alpha_wolf_dimension
         /\ beta_wolf_fitness' = w.beta_wolf_fitness
         /\ beta_wolf_dimension' = w.beta_wolf_dimension
         /\ delta_wolf_fitness' = w.delta_wolf_fitness
         /\ delta_wolf_dimension' = w.delta_wolf_dimension
  /\ k' = k + 1
  /\ UNCHANGED <<config, pc, i, a, clock, timeout_upper_limit, warned,
                 individuals, fitness_scores, zipped, best, best_feature_list,
                 outcome, locals>>

\* The position update of the configured method, then the end of the loop
\* body: self.best_feature_list is set from self.best_dim.  The scores and the
\* zipped candidates of this iteration are not read again (the next iteration
\* overwrites them before any use), and the model drops them here.
PositionUpdate ==
  /\ pc = "hierarchy"
  /\ k > Len(zipped)
  /\ IF method = 2
     THEN \E u \in Cells(population_size, n_features) :
            /\ individuals' = Method2(population_size, n_features, u)
            /\ UNCHANGED locals
     ELSE \E g1, g2, g3 \in Cells(population_size, n_features) :
          \E rn \in RDraws(population_size, n_features) :
            LET y1 == Proposal(population_size, n_features,
                               Deref(alpha_wolf_dimension), g1)
                y2 == Proposal(population_size, n_features,
                               Deref(beta_wolf_dimension), g2)
                y3 == Proposal(population_size, n_features,
                               Deref(delta_wolf_dimension), g3)
            IN  /\ Y1' = y1 /\ Y2' = y2 /\ Y3' = y3 /\ r' = rn
                /\ individuals' = Mixture(population_size, n_features,
                                          individuals, y1, y2, y3, rn)
  /\ best_feature_list' = Assigned(FeatureList(best_dim))
  /\ fitness_scores' = <<>> /\ zipped' = <<>> /\ k' = 0
  /\ i' = i + 1
  /\ pc' = "loop"
  /\ UNCHANGED <<config, a, clock, timeout_upper_limit, warned, wolves, best,
                 outcome>>

Next == LoopHead \/ Evaluate \/ HierarchyStep \/ PositionUpdate

\* -------------------------------------------------------- specifications
\* One feature with any population size, or one individual with any number of
\* features.
Shapes(maxPop, maxFeat) ==
  {<<p, 1>> : p \in 1 .. maxPop} \cup {<<1, n>> : n \in 1 .. maxFeat}

\* Runs of MaxIter iterations: the hierarchy across iterations.
HierarchyConfigs ==
  {<<MaxIter, None, sh[1], sh[2], 2, TRUE>> : sh \in Shapes(MaxPop, MaxFeat)}
\* Runs of one iteration with a larger population: the ranking.
RankingConfigs ==
  {<<1, None, p, 1, 2, TRUE>> : p \in 1 .. RankPop}
    \cup {<<1, None, p, 1, 2, FALSE>> : p \in 1 .. RankPop - 1}
\* Runs of every length up to MaxSchedule: the schedule.
ScheduleConfigs == {<<n, None, 1, 1, 2, TRUE>> : n \in 1 .. MaxSchedule}
\* Runs with a timeout.
TimeoutConfigs == {<<MaxIter, t, 1, 1, m, TRUE>> : t \in 0 .. MaxTimeout, m \in {1, 2}}
\* Runs of method 1.
UpdateConfigs ==
  {<<1, None, 1, n, 1, TRUE>> : n \in 1 .. UpdFeat}
    \cup {<<MaxIter, None, 1, 1, 1, mn>> : mn \in BOOLEAN}

Configs ==
  HierarchyConfigs \cup RankingConfigs \cup ScheduleConfigs \cup TimeoutConfigs
    \cup UpdateConfigs

Init == \E c \in Configs : InitOf(c[1], c[2], c[3], c[4], c[5], c[6])

Spec == Init /\ [][Next]_vars

\* ================================================================ claims
InHierarchyLoop == pc = "hierarchy" /\ k <= Len(zipped)
HierarchyLoopDone == pc = "hierarchy" /\ k > Len(zipped)
\* At least one candidate has been folded into the slots.
AfterHierarchyUpdate == i > 0 \/ (pc = "hierarchy" /\ k > 1)
JustUpdated == pc = "loop" /\ i > 0
Candidate == [fit |-> zipped[k].fit, dim |-> zipped[k].dim]
LastCandidate == [fit |-> zipped[k - 1].fit, dim |-> zipped[k - 1].dim]
Slot(fit, dim) == [fit |-> fit, dim |-> dim]
Alpha == Slot(alpha_wolf_fitness, alpha_wolf_dimension)
Beta == Slot(beta_wolf_fitness, beta_wolf_dimension)
Delta == Slot(delta_wolf_fitness, delta_wolf_dimension)

\* C1: minimizing, in every state after a hierarchy update
\* alpha_wolf_fitness <= beta_wolf_fitness <= delta_wolf_fitness.
C1_HierarchyOrdered ==
  (minimize /\ AfterHierarchyUpdate) =>
    /\ alpha_wolf_fitness <= beta_wolf_fitness
    /\ beta_wolf_fitness <= delta_wolf_fitness

\* A later iteration has filled all three slots with distinct finite scores.
C1_Witness ==
  /\ minimize /\ i >= 1 /\ pc = "hierarchy" /\ k > 1
  /\ alpha_wolf_fitness < beta_wolf_fitness
  /\ beta_wolf_fitness < delta_wolf_fitness
  /\ delta_wolf_fitness < Inf

\* C2: a candidate whose fitness equals the fitness of a slot does not replace
\* that slot: the slot keeps its fitness and its dimension.
C2_TieKeepsSlot ==
  [][InHierarchyLoop =>
       /\ (Candidate.fit = alpha_wolf_fitness => Alpha' = Alpha)
       /\ (Candidate.fit = beta_wolf_fitness => Beta' = Beta)
       /\ (Candidate.fit = delta_wolf_fitness => Delta' = Delta)]_vars

\* A candidate that tied with beta on fitness and differed in its mask has been
\* processed, and beta still holds the other mask.
C2_Witness ==
  /\ pc = "hierarchy" /\ k > 1
  /\ LastCandidate.fit = beta_wolf_fitness
  /\ LastCandidate.dim # beta_wolf_dimension
  /\ alpha_wolf_fitness < beta_wolf_fitness

\* The four cases of the cascading insertion, each as one simultaneous update.
FourCase(w, fit, dim) ==
  IF fit < w.alpha_wolf_fitness
  THEN Wolves(fit, dim, w.alpha_wolf_fitness, w.alpha_wolf_dimension,
              w.beta_wolf_fitness, w.beta_wolf_dimension)
  ELSE IF w.alpha_wolf_fitness < fit /\ fit < w.beta_wolf_fitness
  THEN Wolves(w.alpha_wolf_fitness, w.alpha_wolf_dimension, fit, dim,
              w.beta_wolf_fitness, w.beta_wolf_dimension)
  ELSE IF w.beta_wolf_fitness < fit /\ fit < w.delta_wolf_fitness
  THEN Wolves(w.alpha_wolf_fitness, w.alpha_wolf_dimension,
              w.beta_wolf_fitness, w.beta_wolf_dimension, fit, dim)
  ELSE w

\* C3: for each candidate the hierarchy update is the four-case cascading
\* insertion; fitness and dimension of a slot move together.
C3_FourCaseInsertion ==
  [][InHierarchyLoop =>
       CurrentWolves' = FourCase(CurrentWolves, Candidate.fit, Candidate.dim)]_vars

\* A candidate went in as beta and pushed a wolf with a finite fitness down to
\* delta.
C3_Witness ==
  /\ pc = "hierarchy" /\ k > 1 /\ i >= 1
  /\ Beta = LastCandidate
  /\ alpha_wolf_fitness < beta_wolf_fitness
  /\ beta_wolf_fitness < delta_wolf_fitness
  /\ delta_wolf_fitness < Inf
  /\ delta_wolf_dimension # beta_wolf_dimension

\* The candidates are individuals idx[1], idx[2], ... of the population, each
\* with its own score and mask, and no individual left out scores below one
\* taken.
IsLowestSelection(idx) ==
  /\ \A x, y \in DOMAIN idx : x # y => idx[x] # idx[y]
  /\ \A j \in DOMAIN idx :
       /\ zipped[j].fit = fitness_scores[idx[j]]
       /\ Deref(zipped[j].dim) = individuals[idx[j]]
  /\ \A x \in 1 .. population_size :
       (\A j \in DOMAIN idx : idx[j] # x) =>
         \A j \in DOMAIN idx : fitness_scores[x] >= zipped[j].fit
CandidatesAreLowest ==
  /\ Len(zipped) = Min2(TopK, population_size)
  /\ \A x, y \in 1 .. Len(zipped) : x < y => zipped[x].fit <= zipped[y].fit
  /\ \E idx \in [1 .. Len(zipped) -> 1 .. population_size] : IsLowestSelection(idx)
DistinctThree ==
  /\ Len(zipped) = TopK
  /\ zipped[1].fit < zipped[2].fit
  /\ zipped[2].fit < zipped[3].fit

\* C4: at iteration 0, minimizing, the candidates are the three lowest-scoring
\* individuals in ascending order of fitness, and when their scores are
\* pairwise distinct the slots end as alpha = lowest, beta = second, delta =
\* third, each with the mask of its individual.
C4_IterationZero ==
  (minimize /\ i = 0 /\ pc = "hierarchy") =>
    /\ CandidatesAreLowest
    /\ (HierarchyLoopDone /\ DistinctThree) =>
         /\ Alpha = zipped[1]
         /\ Beta = zipped[2]
         /\ Delta = zipped[3]

\* Four individuals, three distinct lowest scores, the masks not all alike, and
\* the loop over the candidates finished.
C4_Witness ==
  /\ minimize /\ i = 0 /\ HierarchyLoopDone /\ DistinctThree
  /\ population_size = 4
  /\ Deref(alpha_wolf_dimension) # Deref(beta_wolf_dimension)
  /\ \E x \in 1 .. population_size : fitness_scores[x] = 1 /\ x > 1

\* C5 (the claim as stated): a timeout ends fit without an error: the loop
\* stops with a warning and fit returns the best result so far; with
\* timeout = 0 iteration 0 has completed by then.
C5_TimeoutGraceful ==
  (pc = "done" /\ warned) =>
    /\ outcome = "returned"
    /\ best_feature_list = Assigned(FeatureList(best_dim))
    /\ (timeout = 0 => i >= 1)

\* The candidates are the highest-scoring individuals, in descending order.
CandidatesAreHighest ==
  /\ Len(zipped) = Min2(TopK, population_size)
  /\ \A x, y \in 1 .. Len(zipped) : x < y => zipped[x].fit >= zipped[y].fit
  /\ \A x \in 1 .. population_size :
       (\A j \in 1 .. Len(zipped) : zipped[j].fit # fitness_scores[x]) =>
         \A j \in 1 .. Len(zipped) : fitness_scores[x] <= zipped[j].fit

C7_Schedule ==
  [][(pc = "loop" /\ pc' = "evaluate") =>
       /\ 0 <= a'.num
       /\ a'.num <= 2 * a'.den
       /\ (i = n_iteration - 1 => a'.num = 0)
       /\ (i >= 1 => FracLeq(a', a))]_vars

\* The last of four or more iterations has computed a = 0, below the a before.
C7_Witness ==
  /\ pc = "evaluate" /\ n_iteration >= 4 /\ i = n_iteration - 1
  /\ a.num = 0

\* C8: minimizing, no step raises the fitness of a slot, and a slot changes
\* only in a step of the hierarchy loop, either to the candidate, whose
\* fitness is strictly below the slot's, or to the wolf of the slot above it
\* when that candidate went in above.
C8_SlotsOnlyImprove ==
  [][minimize =>
       /\ alpha_wolf_fitness' <= alpha_wolf_fitness
       /\ beta_wolf_fitness' <= beta_wolf_fitness
       /\ delta_wolf_fitness' <= delta_wolf_fitness
       /\ Alpha' # Alpha =>
            /\ InHierarchyLoop
            /\ Candidate.fit < alpha_wolf_fitness /\ Alpha' = Candidate
       /\ Beta' # Beta =>
            /\ InHierarchyLoop
            /\ \/ Candidate.fit < beta_wolf_fitness /\ Beta' = Candidate
               \/ /\ Candidate.fit < alpha_wolf_fitness
                  /\ Alpha' = Candidate /\ Beta' = Alpha
       /\ Delta' # Delta =>
            /\ InHierarchyLoop
            /\ \/ Candidate.fit < delta_wolf_fitness /\ Delta' = Candidate
               \/ /\ Candidate.fit < beta_wolf_fitness
                  /\ (Alpha' = Candidate \/ Beta' = Candidate)
                  /\ Delta' = Beta]_vars

\* The first candidate of a later iteration went in as alpha and pushed two
\* wolves with finite fitness down.
C8_Witness ==
  /\ minimize /\ i >= 1 /\ pc = "hierarchy" /\ k = 2
  /\ Alpha = LastCandidate
  /\ alpha_wolf_fitness < beta_wolf_fitness
  /\ beta_wolf_fitness < delta_wolf_fitness
  /\ delta_wolf_fitness < Inf

\* The proposal the draw r of a cell selects.
SelectedProposal(x, f) ==
  IF 3 * r[x][f] < RDen THEN Y1[x][f]
  ELSE IF 3 * r[x][f] < 2 * RDen THEN Y2[x][f]
  ELSE Y3[x][f]

\* C9: the population is a population_size x n_features matrix of 0 and 1
\* after every position update, and method 1 writes every cell with the cell
\* of Y1, Y2 or Y3 that the range of r selects.
C9_BinaryAndRewritten ==
  /\ individuals \in Matrix(population_size, n_features)
  /\ (JustUpdated /\ method = 1) =>
       \A x \in 1 .. population_size : \A f \in 1 .. n_features :
         individuals[x][f] = SelectedProposal(x, f)

\* Method 1 has drawn r = 2/3 for one cell and r = 1/3 for another; the first
\* cell holds the bit of Y3, which differs from that of Y1.
C9_Witness ==
  /\ JustUpdated /\ method = 1 /\ n_features = 2
  /\ 3 * r[1][1] = 2 * RDen /\ 3 * r[1][2] = RDen
  /\ Y1[1][1] = 0 /\ Y3[1][1] = 1
  /\ individuals[1] = <<1, 1>>

\* C10: the position update changes no slot: the fitness and the bits of the
\* dimension of alpha, beta and delta are after it what they were before it.
C10_UpdateKeepsSlots ==
  [][HierarchyLoopDone =>
       /\ alpha_wolf_fitness' = alpha_wolf_fitness
       /\ beta_wolf_fitness' = beta_wolf_fitness
       /\ delta_wolf_fitness' = delta_wolf_fitness
       /\ DerefIn(individuals', alpha_wolf_dimension')
            = DerefIn(individuals, alpha_wolf_dimension)
       /\ DerefIn(individuals', beta_wolf_dimension')
            = DerefIn(individuals, beta_wolf_dimension)
       /\ DerefIn(individuals', delta_wolf_dimension')
            = DerefIn(individuals, delta_wolf_dimension)]_vars

\* Method 1 has overwritten the only row of the population, the row alpha was
\* taken from, and alpha still holds the mask that was scored.
C10_Witness ==
  /\ JustUpdated /\ method = 1 /\ population_size = 1 /\ i = 1
  /\ alpha_wolf_fitness < Inf
  /\ Deref(alpha_wolf_dimension) # individuals[1]

====
